---- MODULE Spec2Model ----
(***************************************************************************)
(* Model of the VisaSDKIntegration bridge: the React Native client         *)
(* (callFunction, handleMessage, the 30 s timer) and the bridge server     *)
(* injected into the WebView (checkSDK, setupListeners, handleMessage).    *)
(* Both sides are single-threaded event loops, so every handler, timer     *)
(* callback and await continuation is one atomic action.                   *)
(***************************************************************************)
EXTENDS Integers, Sequences, FiniteSets, Bags, TLC

\* ------------------------------------------------------------------ bounds
MaxCalls == 2          \* callFunction invocations explored per session
MaxForeign == 1        \* extra posts by other scripts of the embedded page

\* ------------------------------------------------------- program constants
TIMEOUT_MS == 30000    \* setTimeout(..., 30000) of callFunction
POLL_MS == 500         \* setTimeout(checkSDK, 500)
maxAttempts == 20      \* const maxAttempts = 20

\* ------------------------------------------------------------- value domain
\* JavaScript values are tokens; a text is a tuple of string pieces.
Undefined == "undefined"
NoText == <<>>                      \* absent / empty string
NoId == <<>>                        \* absent / empty id

\* Object.keys(VSDK): the vendor service's method table, in key order.
VSDKKeys == <<"initialize", "getCards", "checkout">>

\* typeof VSDK[functionName] === 'function'
IsFunction(functionName) == \E i \in 1..Len(VSDKKeys) : VSDKKeys[i] = functionName

\* Function names and argument lists the application calls with.
CallInputs == {[functionName |-> "initialize", args |-> <<"{opts}", "{extra}">>],
               [functionName |-> "initialize", args |-> <<>>],
               [functionName |-> "doesNotExist", args |-> <<"{opts}">>]}

\* What a vendor function can produce: a result value or a thrown value.
VendorResults == {Undefined, "{actionCode}"}
VendorThrown == {[isError |-> TRUE, message |-> <<"card declined">>],
                 [isError |-> TRUE, message |-> NoText],
                 [isError |-> FALSE, message |-> <<"oops">>]}

\* `msg_${n}`
MsgId(n) == <<"msg_", n>>

\* Array.prototype.join(', ')
RECURSIVE Join(_)
Join(s) == IF Len(s) = 0 THEN <<>>
           ELSE IF Len(s) = 1 THEN <<s[1]>>
           ELSE <<s[1], ", ">> \o Join(Tail(s))

\* 'Function ' + functionName + ' not found. Available: ' + Object.keys(VSDK).join(', ')
NotFoundText(functionName) ==
    <<"Function ", functionName, " not found. Available: ">> \o Join(VSDKKeys)

\* `Timeout calling ${functionName}`
TimeoutText(functionName) == <<"Timeout calling ", functionName>>

\* error.message || String(error)
ErrorText(error) ==
    IF error.isError
    THEN IF error.message # NoText THEN error.message ELSE <<"Error">>
    ELSE error.message

\* ---------------------------------------------------------------- JSON wire
\* A wire message is the JSON text of an object: wf is FALSE for a payload
\* JSON.parse rejects; a key JSON.stringify leaves out is absent on parse.
JsonData(v) == IF v = Undefined THEN [present |-> FALSE, json |-> "null"]
               ELSE [present |-> TRUE, json |-> v]

\* JSON.stringify of an array element: undefined becomes null.
JsonElem(v) == IF v = Undefined THEN "null" ELSE v

JsonArgs(args) == [i \in 1..Len(args) |-> JsonElem(args[i])]

\* A parse that reads an absent key as null.
ParseData_Null(d) == d.json

\* JSON.parse of a property: an absent key reads as undefined.
ParseData(d) == IF d.present THEN d.json ELSE Undefined

NoData == [present |-> FALSE, json |-> "null"]

WireBase == [wf |-> TRUE, type |-> "", id |-> NoId, functionName |-> "",
             args |-> <<>>, data |-> NoData, methods |-> <<>>,
             hasMethods |-> FALSE, error |-> NoText]

\* JSON.stringify({ id, functionName, args })
RequestWire(id, functionName, args) ==
    [WireBase EXCEPT !.id = id, !.functionName = functionName,
                     !.args = JsonArgs(args)]

\* A response that always carries the id of the first request.
ResultWire_FirstId(id, result) ==
    [WireBase EXCEPT !.id = MsgId(0), !.data = JsonData(result)]

\* JSON.stringify({ id: id, data: result })
ResultWire(id, result) ==
    [WireBase EXCEPT !.id = id, !.data = JsonData(result)]

\* JSON.stringify({ id: ..., error: ... })
ErrorWire(id, text) ==
    [WireBase EXCEPT !.id = id, !.error = text]

\* An announcement of readiness that carries no method names.
ReadyWire_NoMethods == [WireBase EXCEPT !.type = "SDK_READY"]

\* JSON.stringify({ type: 'SDK_READY', data: { methods: Object.keys(VSDK) } })
ReadyWire ==
    [WireBase EXCEPT !.type = "SDK_READY", !.methods = VSDKKeys,
                     !.hasMethods = TRUE]

\* JSON.stringify({ type: 'SDK_READY', error: 'VSDK not found' })
FailedWire ==
    [WireBase EXCEPT !.type = "SDK_READY", !.error = <<"VSDK not found">>]

\* Payloads other scripts of the page can post: not JSON at all, a JSON
\* object of no recognized shape, a response for an id never issued.
Malformed == [WireBase EXCEPT !.wf = FALSE]
Unrecognized == WireBase
StrayResponse == ResultWire(<<"stale_", 0>>, "{stray}")
ForeignMsgs == {Malformed, Unrecognized, StrayResponse}

\* -------------------------------------------------------------------- state
VARIABLES
    webViewRef,     \* client: webViewRef.current is attached (non-null)
    callbacks,      \* client: callbacks.current, id -> index of its call
    messageId,      \* client: messageId.current
    timers,         \* client: armed setTimeout callbacks of callFunction
    calls,          \* history: one record per callFunction invocation
    readyCalls,     \* history: arguments of each onSDKReady invocation
    errorCalls,     \* history: number of onError invocations
    received,       \* history: bag of payloads the client's handleMessage ran on
    toServer,       \* channel: messages posted by the client, in flight
    toClient,       \* channel: bag of messages posted to the client, in flight
    foreign,        \* number of posts made by other scripts of the page
    injected,       \* server: the injected bridge script has started
    vsdk,           \* server: typeof VSDK !== 'undefined' && VSDK
    sdkReady,       \* server: let sdkReady
    checkAttempts,  \* server: let checkAttempts
    pollTimer,      \* server: deadlines of the pending setTimeout(checkSDK)
    listeners,      \* server: event targets with a 'message' listener
    invoking,       \* server: handleMessage runs suspended at the await
    posted,         \* history: bag of messages posted by the bridge server
    serverLog,      \* history: bag of what the server's handleMessage runs did
    pollTimes,      \* history: the time of each checkSDK run
    now             \* time in ms

clientVars == <<webViewRef, callbacks, messageId, timers, calls, readyCalls,
                errorCalls, received>>
serverVars == <<injected, vsdk, sdkReady, checkAttempts, pollTimer, listeners,
                invoking, posted, serverLog, pollTimes>>
vars == <<clientVars, serverVars, toServer, toClient, foreign, now>>

Init ==
    /\ webViewRef = FALSE
    /\ callbacks = <<>>
    /\ messageId = 0
    /\ timers = {}
    /\ calls = <<>>
    /\ readyCalls = <<>>
    /\ errorCalls = 0
    /\ received = EmptyBag
    /\ toServer = {}
    /\ toClient = EmptyBag
    /\ foreign = 0
    /\ injected = FALSE
    /\ vsdk = FALSE
    /\ sdkReady = FALSE
    /\ checkAttempts = 0
    /\ pollTimer = {}
    /\ listeners = {}
    /\ invoking = {}
    /\ posted = EmptyBag
    /\ serverLog = EmptyBag
    /\ pollTimes = <<>>
    /\ now = 0

\* ------------------------------------------------------------ bridge client
\* callbacks.current.set(id, ...)
MapSet(map, id, k) ==
    [i \in DOMAIN map \cup {id} |-> IF i = id THEN k ELSE map[i]]

\* A delete that empties the table.
MapDelete_Clear(map, id) == <<>>

\* A delete that removes nothing.
MapDelete_Keep(map, id) == map

\* callbacks.current.delete(id)
MapDelete(map, id) == [i \in DOMAIN map \ {id} |-> map[i]]

\* callbacks.current.has(id)
MapHas(map, id) == id \in DOMAIN map

\* A lookup that falls back to some entry when the key is absent.
MapGet_Fallback(map, id) ==
    IF id \in DOMAIN map THEN {map[id]}
    ELSE IF DOMAIN map # {} THEN {map[CHOOSE i \in DOMAIN map : TRUE]}
    ELSE {}

\* callbacks.current.get(id): the entry found, if any.
MapGet(map, id) == IF id \in DOMAIN map THEN {map[id]} ELSE {}

\* One invocation of a promise's resolve or reject continuation by the path
\* `by`: the first one settles the promise, a later one changes nothing.
Settle(call, kind, value, reason, by) ==
    IF call.state = "pending"
    THEN [call EXCEPT !.state = kind, !.value = value, !.reason = reason,
                      !.settles = @ + 1, !.by = by]
    ELSE [call EXCEPT !.settles = @ + 1]

NewCall(functionName, args) ==
    [functionName |-> functionName, args |-> args, id |-> NoId,
     state |-> "pending", value |-> Undefined, reason |-> NoText,
     settles |-> 0, issuedAt |-> now, by |-> "none"]

\* The mounted WebView attaches to webViewRef (ref={webViewRef}).
Mount ==
    /\ ~webViewRef
    /\ webViewRef' = TRUE
    /\ UNCHANGED <<callbacks, messageId, timers, calls, readyCalls, errorCalls,
                   received, serverVars, toServer, toClient, foreign, now>>

\* The attachment check left out.
ChannelReady_Unchecked == TRUE

\* if (!webViewRef.current)
ChannelReady == webViewRef

\* A counter that is read but not advanced.
NextMessageId_Reuse(n) == n

\* messageId.current++
NextMessageId(n) == n + 1

\* A timer armed with 3000 instead of 30000.
TimeoutDeadline_Short(t) == t + 3000

\* setTimeout(..., 30000): the time at which the callback is due.
TimeoutDeadline(t) == t + TIMEOUT_MS

\* callFunction(functionName, ...args)
CallFunction(functionName, args) ==
    /\ Len(calls) < MaxCalls
    /\ LET k == Len(calls) + 1
           id == MsgId(messageId)
           call == NewCall(functionName, args)
       IN IF ~ChannelReady
          THEN /\ calls' = Append(calls, Settle(call, "rejected", Undefined,
                                   <<"WebView not ready">>, "notReady"))
               /\ UNCHANGED <<callbacks, messageId, timers, toServer>>
          ELSE /\ messageId' = NextMessageId(messageId)
               /\ callbacks' = MapSet(callbacks, id, k)
               /\ calls' = Append(calls, [call EXCEPT !.id = id])
               /\ toServer' = toServer \cup {RequestWire(id, functionName, args)}
               /\ timers' = timers \cup
                     {[k |-> k, id |-> id, deadline |-> TimeoutDeadline(now)]}
    /\ UNCHANGED <<webViewRef, readyCalls, errorCalls, received, serverVars,
                   toClient, foreign, now>>

\* A timer callback that never finds the entry.
TimeoutFindsEntry_Never(id) == FALSE

\* A timer callback that rejects without looking at the table.
TimeoutFindsEntry_Always(id) == TRUE

\* if (callbacks.current.has(id)) of the timer callback
TimeoutFindsEntry(id) == MapHas(callbacks, id)

\* The timer callback of callFunction, run by the event loop when due.
TimeoutFires(t) ==
    /\ t \in timers
    /\ now >= t.deadline
    /\ timers' = timers \ {t}
    /\ IF TimeoutFindsEntry(t.id)
       THEN /\ callbacks' = MapDelete(callbacks, t.id)
            /\ calls' = [calls EXCEPT ![t.k] =
                  Settle(@, "rejected", Undefined,
                         TimeoutText(@.functionName), "timeout")]
       ELSE UNCHANGED <<callbacks, calls>>
    /\ UNCHANGED <<webViewRef, messageId, readyCalls, errorCalls, received,
                   serverVars, toServer, toClient, foreign, now>>

\* A parse that accepts any payload.
JsonParses_Lenient(m) == TRUE

\* A parse that also rejects objects of no recognized shape.
JsonParses_Strict(m) == m.wf /\ (m.type = "SDK_READY" \/ m.id # NoId)

\* JSON.parse(event.nativeEvent.data) returns instead of throwing.
JsonParses(m) == m.wf

\* A test that leaves out announcements carrying an error.
IsReadyAnnouncement_NoError(m) == m.type = "SDK_READY" /\ m.error = NoText

\* if (message.type === 'SDK_READY')
IsReadyAnnouncement(m) == m.type = "SDK_READY"

\* handleMessage of the client (onMessage={handleMessage}) on payload m.
ClientHandleMessage(m) ==
    /\ BagIn(m, toClient)
    /\ toClient' = toClient (-) SetToBag({m})
    /\ received' = received (+) SetToBag({m})
    /\ IF ~JsonParses(m)
       THEN \* JSON.parse throws: catch, onError
            /\ errorCalls' = errorCalls + 1
            /\ UNCHANGED <<callbacks, calls, readyCalls>>
       ELSE IF IsReadyAnnouncement(m)
       THEN \* onSDKReady?.(message.data?.methods || [])
            /\ readyCalls' = Append(readyCalls,
                                IF m.hasMethods THEN m.methods ELSE <<>>)
            /\ UNCHANGED <<callbacks, calls, errorCalls>>
       ELSE IF m.id # NoId /\ MapGet(callbacks, m.id) # {}
       THEN LET k == CHOOSE c \in MapGet(callbacks, m.id) : TRUE
            IN /\ callbacks' = MapDelete(callbacks, m.id)
               /\ calls' = [calls EXCEPT ![k] =
                     IF m.error # NoText
                     THEN Settle(@, "rejected", Undefined, m.error, "response")
                     ELSE Settle(@, "resolved", ParseData(m.data), NoText,
                                 "response")]
               /\ UNCHANGED <<readyCalls, errorCalls>>
       ELSE UNCHANGED <<callbacks, calls, readyCalls, errorCalls>>
    /\ UNCHANGED <<webViewRef, messageId, timers, serverVars, toServer,
                   foreign, now>>

\* ------------------------------------------------------------ bridge server
\* The targets the two listeners of setupListeners are registered on.
EventTargets == {"document", "window"}

\* window.ReactNativeWebView.postMessage(...) of each message of the set msgs.
PostToClient(msgs) ==
    /\ posted' = posted (+) SetToBag(msgs)
    /\ toClient' = toClient (+) SetToBag(msgs)

\* `const message` is scoped to the try block, so the catch block's
\* `message.id` does not name it: evaluating it throws a ReferenceError
\* before postMessage is reached.
MessageInCatchScope == FALSE

\* The catch block of the server's handleMessage: the messages it posts.
CatchPosts(id, error) ==
    IF MessageInCatchScope THEN {ErrorWire(id, ErrorText(error))} ELSE {}

\* The retry bound off by one.
MayRetry_OffByOne(attempts) == attempts <= maxAttempts

\* else if (checkAttempts < maxAttempts)
MayRetry(attempts) == attempts < maxAttempts

\* function checkSDK()
CheckSDK ==
    /\ checkAttempts' = checkAttempts + 1
    /\ pollTimes' = Append(pollTimes, now)
    /\ IF vsdk
       THEN /\ sdkReady' = TRUE
            /\ PostToClient({ReadyWire})
            /\ listeners' = listeners \cup EventTargets     \* setupListeners()
            /\ pollTimer' = {}
       ELSE IF MayRetry(checkAttempts + 1)
       THEN /\ pollTimer' = {now + POLL_MS}
            /\ UNCHANGED <<sdkReady, listeners, posted, toClient>>
       ELSE /\ PostToClient({FailedWire})
            /\ pollTimer' = {}
            /\ UNCHANGED <<sdkReady, listeners>>
    /\ UNCHANGED <<vsdk, invoking, serverLog, clientVars, toServer, foreign, now>>

\* The page has loaded and the injected script runs: checkSDK() at its end.
InjectBridge ==
    /\ webViewRef
    /\ ~injected
    /\ injected' = TRUE
    /\ CheckSDK

\* The timer set by setTimeout(checkSDK, 500) is due.
PollFires ==
    /\ \E d \in pollTimer : now >= d
    /\ UNCHANGED injected
    /\ CheckSDK

\* The vendor script of the page finishes loading and defines VSDK.
VSDKLoads ==
    /\ webViewRef
    /\ ~vsdk
    /\ vsdk' = TRUE
    /\ UNCHANGED <<clientVars, injected, sdkReady, checkAttempts, pollTimer,
                   listeners, invoking, posted, serverLog, pollTimes,
                   toServer, toClient, foreign, now>>

LogEntry(ev, m, detail) ==
    [ev |-> ev, id |-> m.id, functionName |-> m.functionName,
     args |-> m.args, detail |-> detail]

Log(entry) == serverLog' = serverLog (+) SetToBag({entry})

\* ...(args || []): the arguments the vendor function is invoked with.
SpreadArgs(args) == args

\* async function handleMessage(data), up to its await or its end.
ServerHandleMessage(m) ==
    IF ~sdkReady
    THEN /\ Log(LogEntry("notReady", m, <<>>))
         /\ PostToClient(CatchPosts(m.id,
               [isError |-> TRUE, message |-> <<"SDK not ready">>]))
         /\ UNCHANGED invoking
    ELSE IF ~IsFunction(m.functionName)
    THEN /\ Log(LogEntry("notFound", m, <<>>))
         /\ PostToClient(CatchPosts(m.id,
               [isError |-> TRUE, message |-> NotFoundText(m.functionName)]))
         /\ UNCHANGED invoking
    ELSE /\ Log([LogEntry("invoke", m, <<>>) EXCEPT !.args = SpreadArgs(m.args)])
         /\ invoking' = invoking \cup
               {[id |-> m.id, functionName |-> m.functionName,
                 args |-> SpreadArgs(m.args)]}
         /\ UNCHANGED <<posted, toClient>>

\* The WebView delivers a message posted by the client as a 'message' event
\* on target; the listener registered there runs handleMessage.
ServerDispatch(m, target) ==
    /\ m \in toServer
    /\ toServer' = toServer \ {m}
    /\ IF target \in listeners
       THEN ServerHandleMessage(m)
       ELSE UNCHANGED <<invoking, posted, serverLog, toClient>>
    /\ UNCHANGED <<clientVars, injected, vsdk, sdkReady, checkAttempts,
                   pollTimer, listeners, pollTimes, foreign, now>>

\* The awaited vendor call completes with a result: the rest of the try block.
VendorReturns(inv, result) ==
    /\ inv \in invoking
    /\ invoking' = invoking \ {inv}
    /\ Log(LogEntry("return", inv, <<result>>))
    /\ PostToClient({ResultWire(inv.id, result)})
    /\ UNCHANGED <<clientVars, injected, vsdk, sdkReady, checkAttempts,
                   pollTimer, listeners, pollTimes, toServer, foreign, now>>

\* The awaited vendor call throws or rejects: the catch block.
VendorThrows(inv, error) ==
    /\ inv \in invoking
    /\ invoking' = invoking \ {inv}
    /\ Log(LogEntry("throw", inv, ErrorText(error)))
    /\ PostToClient(CatchPosts(inv.id, error))
    /\ UNCHANGED <<clientVars, injected, vsdk, sdkReady, checkAttempts,
                   pollTimer, listeners, pollTimes, toServer, foreign, now>>

\* ------------------------------------------------------------- environment
\* Another script of the embedded page posts to the client: a payload of its
\* own, or once more a message the bridge server has already posted.
EmbeddedPost(m) ==
    /\ webViewRef
    /\ foreign < MaxForeign
    /\ m \in ForeignMsgs \cup BagToSet(posted)
    /\ foreign' = foreign + 1
    /\ toClient' = toClient (+) SetToBag({m})
    /\ UNCHANGED <<clientVars, serverVars, toServer, now>>

Deadlines == {t.deadline : t \in timers} \cup pollTimer

\* Time passes until the next timer is due; a due timer runs before later ones.
Tick ==
    /\ \A d \in Deadlines : d > now
    /\ Deadlines # {}
    /\ now' = CHOOSE d \in Deadlines : \A o \in Deadlines : d <= o
    /\ UNCHANGED <<clientVars, serverVars, toServer, toClient, foreign>>

\* The call protocol: the application calls at instants where no discovery
\* poll is pending, and the vendor script loads before the bridge script
\* starts or not at all.
Next ==
    \/ Mount
    \/ pollTimer = {} /\ \E c \in CallInputs : CallFunction(c.functionName, c.args)
    \/ \E t \in timers : TimeoutFires(t)
    \/ \E m \in BagToSet(toClient) : ClientHandleMessage(m)
    \/ InjectBridge
    \/ PollFires
    \/ ~injected /\ VSDKLoads
    \/ \E m \in toServer, target \in EventTargets : ServerDispatch(m, target)
    \/ \E inv \in invoking, r \in VendorResults : VendorReturns(inv, r)
    \/ \E inv \in invoking, x \in VendorThrown : VendorThrows(inv, x)
    \/ \E m \in ForeignMsgs \cup BagToSet(posted) : EmbeddedPost(m)
    \/ Tick

Spec == Init /\ [][Next]_vars

\* The event loop runs every timer callback that is due, and time does not
\* stop: a timer set by setTimeout eventually fires.
SpecLive ==
    /\ Spec
    /\ WF_vars(Tick)
    /\ WF_vars(PollFires)
    /\ WF_vars(\E t \in timers : TimeoutFires(t))

\* Discovery: the vendor script may load at any moment, the application
\* issues no call.
NextDiscovery ==
    \/ Mount
    \/ InjectBridge
    \/ PollFires
    \/ VSDKLoads
    \/ \E m \in BagToSet(toClient) : ClientHandleMessage(m)
    \/ \E m \in ForeignMsgs \cup BagToSet(posted) : EmbeddedPost(m)
    \/ Tick

SpecDiscovery == Init /\ [][NextDiscovery]_vars

\* ------------------------------------------------------------- properties
CallIds == 1..Len(calls)

\* The calls that were given a correlation id.
Allocated == {k \in CallIds : calls[k].id # NoId}

\* The timer of call k has run.
TimerFired(k) == calls[k].id # NoId /\ ~\E t \in timers : t.k = k

\* The client's handleMessage has run on a call response bearing id.
ResponseReceived(id) ==
    \E m \in BagToSet(received) : m.wf /\ m.type # "SDK_READY" /\ m.id = id

\* C1: every call is settled at most once, its table entry is present exactly
\* while it is unsettled, and once its timer has run it is settled exactly
\* once, whatever the order of responses, duplicates and the timer.
C1_SettledOnce ==
    \A k \in CallIds :
        /\ calls[k].settles <= 1
        /\ calls[k].id # NoId =>
              (MapHas(callbacks, calls[k].id) <=> calls[k].settles = 0)
        /\ TimerFired(k) => calls[k].settles = 1

\* A call settled once although its response was received twice and its
\* timer has run as well.
C1_Witness ==
    \E k \in CallIds :
        /\ calls[k].settles = 1
        /\ TimerFired(k)
        /\ \E m \in BagToSet(received) :
              m.id = calls[k].id /\ CopiesIn(m, received) >= 2

\* C2: once the server has handled a request for a name that is not a
\* function of the vendor service, it has posted {id, error} with that id and
\* the text naming the function and listing the method names.
C2_NotFoundAnswered ==
    \A e \in BagToSet(serverLog) :
        e.ev = "notFound" =>
            \E m \in BagToSet(posted) :
                /\ m.id = e.id
                /\ m.error = <<"Function ", e.functionName,
                               " not found. Available: ", "initialize", ", ",
                               "getCards", ", ", "checkout">>

\* C3: once the vendor function of a request has thrown or rejected, the
\* server has posted exactly one {id, error} with the request's id and the
\* exception's text.
C3_ThrowAnswered ==
    \A e \in BagToSet(serverLog) :
        e.ev = "throw" =>
            /\ \E m \in BagToSet(posted) : m.id = e.id /\ m.error = e.detail
            /\ \A m \in BagToSet(posted) :
                  m.id = e.id => CopiesIn(m, posted) = 1

\* C4: onSDKReady is invoked at most once in a session.
C4_ReadyAtMostOnce == Len(readyCalls) <= 1

\* C5: the server invokes the named function with the arguments the call was
\* made with, in order; it posts {id, data: result} for the result it gets;
\* and a call whose response was received before its timer resolves with
\* exactly that result.
C5_HappyPath ==
    /\ \A e \in BagToSet(serverLog) :
          e.ev = "invoke" =>
              \E k \in CallIds : /\ calls[k].id = e.id
                                 /\ calls[k].functionName = e.functionName
                                 /\ calls[k].args = e.args
    /\ \A e \in BagToSet(serverLog) :
          e.ev = "return" =>
              /\ \E m \in BagToSet(posted) :
                    /\ m.id = e.id /\ m.type = "" /\ m.error = NoText
                    /\ IF e.detail[1] = Undefined
                       THEN ~m.data.present
                       ELSE m.data = [present |-> TRUE, json |-> e.detail[1]]
              /\ \A k \in CallIds :
                    (calls[k].id = e.id /\ ResponseReceived(e.id)
                       /\ calls[k].by # "timeout")
                    => (calls[k].state = "resolved"
                          /\ calls[k].value = e.detail[1])

\* A call made with two arguments has resolved with the vendor's result, and
\* another one has resolved with undefined.
C5_Witness ==
    /\ \E k \in CallIds : /\ calls[k].state = "resolved"
                          /\ calls[k].value = "{actionCode}"
                          /\ Len(calls[k].args) = 2
    /\ \E k \in CallIds : calls[k].state = "resolved" /\ calls[k].value = Undefined

\* C6: the ids allocated in a session are msg_0, msg_1, ... in call order, no
\* two calls share an id, the counter equals the number of ids allocated, and
\* a call rejected as channel-not-ready has no id.
C6_IdsIncrease ==
    /\ \A k \in Allocated :
          calls[k].id = <<"msg_", Cardinality({j \in Allocated : j < k})>>
    /\ \A j, k \in Allocated : j # k => calls[j].id # calls[k].id
    /\ \A k \in CallIds :
          calls[k].reason = <<"WebView not ready">> => calls[k].id = NoId
    /\ messageId = Cardinality(Allocated)

\* A second id was allocated after the first call had timed out.
C6_Witness ==
    \E j, k \in Allocated :
        /\ j < k
        /\ calls[j].by = "timeout"
        /\ calls[k].issuedAt > calls[j].issuedAt
        /\ calls[k].id = <<"msg_", 1>>

\* C7: a run of the client's handleMessage on a response whose id has no
\* entry in the table changes neither the calls nor the table and invokes
\* neither callback.
C7_UnmatchedIgnored ==
    [][\A m \in BagToSet(toClient) :
          (/\ received' = received (+) SetToBag({m})
           /\ m.wf /\ m.type # "SDK_READY" /\ m.id # NoId
           /\ ~MapHas(callbacks, m.id))
          => UNCHANGED <<calls, callbacks, errorCalls, readyCalls>>]_vars

\* A response was received for a call that had already timed out, while
\* another call was still pending.
C7_Witness ==
    \E j, k \in CallIds :
        /\ calls[j].by = "timeout"
        /\ ResponseReceived(calls[j].id)
        /\ calls[k].state = "pending"

\* C8: a call rejected by the timeout path is rejected with "Timeout calling
\* <functionName>", its timer has run and at least 30000 ms have passed since
\* the call; and a call whose timer has run with no response received is
\* rejected by the timeout path.
C8_TimeoutRejects ==
    \A k \in Allocated :
        /\ calls[k].by = "timeout" =>
              /\ calls[k].state = "rejected"
              /\ calls[k].reason = <<"Timeout calling ", calls[k].functionName>>
              /\ TimerFired(k)
              /\ now - calls[k].issuedAt >= 30000
        /\ (TimerFired(k) /\ ~ResponseReceived(calls[k].id)) =>
              calls[k].by = "timeout"

\* A call has been rejected by its timer exactly 30000 ms after it was made.
C8_Witness ==
    \E k \in Allocated :
        /\ calls[k].by = "timeout"
        /\ ~ResponseReceived(calls[k].id)
        /\ now = calls[k].issuedAt + 30000

\* C9: as long as the vendor service has not become available, checkSDK has
\* run at most 20 times, each run 500 ms after the previous one, no listener
\* is attached, nothing is posted before the 20th run, and from the 20th run
\* on exactly one message is posted, of type SDK_READY with an error and no
\* methods, and no poll is pending.
C9_DiscoveryBound ==
    ~vsdk =>
        /\ checkAttempts <= 20
        /\ Len(pollTimes) = checkAttempts
        /\ \A i \in 1..(Len(pollTimes) - 1) : pollTimes[i + 1] - pollTimes[i] = 500
        /\ listeners = {}
        /\ ~sdkReady
        /\ checkAttempts < 20 => posted = EmptyBag
        /\ checkAttempts = 20 =>
              /\ pollTimer = {}
              /\ BagCardinality(posted) = 1
              /\ \A m \in BagToSet(posted) :
                    /\ m.type = "SDK_READY"
                    /\ m.error # NoText
                    /\ ~m.hasMethods

\* Discovery has failed: 20 runs, the last one 9500 ms after the first, and
\* the failure announcement has reached the client.
C9_Witness ==
    /\ ~vsdk
    /\ checkAttempts = 20
    /\ pollTimes[20] - pollTimes[1] = 9500
    /\ BagIn(FailedWire, received)

\* C10: a callFunction made while the channel is not attached rejects its
\* promise with the channel-not-ready error and changes nothing else: not the
\* counter, the table, the timers or the messages in flight.
C10_NotReadyRejects ==
    [][(Len(calls') = Len(calls) + 1 /\ ~webViewRef) =>
          /\ calls'[Len(calls')].state = "rejected"
          /\ calls'[Len(calls')].reason = <<"WebView not ready">>
          /\ calls'[Len(calls')].settles = 1
          /\ calls'[Len(calls')].id = NoId
          /\ UNCHANGED <<messageId, callbacks, timers, toServer, toClient>>]_vars

\* A call was rejected as channel-not-ready, and a later one was sent.
C10_Witness ==
    \E j, k \in CallIds :
        /\ j < k
        /\ calls[j].reason = <<"WebView not ready">>
        /\ calls[k].id = <<"msg_", 0>>

\* C11: a run of the client's handleMessage on an unparseable payload invokes
\* onError once and changes neither the calls, the table, the timers, the
\* counter nor the readiness history; a call pending at that moment is still
\* resolved by its response (C11_Witness).
C11_MalformedToOnError ==
    [][\A m \in BagToSet(toClient) :
          (received' = received (+) SetToBag({m}) /\ ~m.wf)
          => /\ errorCalls' = errorCalls + 1
             /\ UNCHANGED <<calls, callbacks, timers, messageId, readyCalls>>]_vars

\* An unparseable payload was received, one call has since been resolved by
\* its response and another is still pending in the table.
C11_Witness ==
    /\ BagIn(Malformed, received)
    /\ errorCalls = 1
    /\ \E j, k \in CallIds :
          /\ calls[j].by = "response" /\ calls[j].state = "resolved"
          /\ calls[k].state = "pending" /\ MapHas(callbacks, calls[k].id)

\* C12: when the timer of one call fires, no other call changes, no other
\* entry of the table is added, removed or changed, and the id counter keeps
\* its value; a call still pending beside it stays in the table.
C12_TimeoutFrame ==
    [][\A t \in timers :
          (t \notin timers')
          => /\ \A j \in CallIds \ {t.k} : calls'[j] = calls[j]
             /\ Len(calls') = Len(calls)
             /\ messageId' = messageId
             /\ DOMAIN callbacks' = DOMAIN callbacks \ {t.id}
             /\ \A id \in DOMAIN callbacks' : callbacks'[id] = callbacks[id]
             /\ MapHas(callbacks, t.id)
                => /\ calls'[t.k].state = "rejected"
                   /\ calls'[t.k].by = "timeout"]_vars

\* One call was failed by its timer while another, issued later, is still
\* pending in the table with its response on the way.
C12_Witness ==
    \E j, k \in CallIds :
        /\ calls[j].by = "timeout"
        /\ calls[k].state = "pending"
        /\ calls[k].issuedAt > calls[j].issuedAt
        /\ MapHas(callbacks, calls[k].id)
        /\ \E m \in BagToSet(toClient) : m.id = calls[k].id

\* C13: a request taken by the server in READY is handled exactly once: the
\* log holds one handling of its id, the vendor function is invoked at most
\* once for it, and once the handler has finished exactly one response with
\* that id has been posted.
C13_HandledOnce ==
    \A k \in Allocated :
        LET id      == calls[k].id
            starts  == {e \in BagToSet(serverLog) :
                          e.id = id /\ e.ev \in {"notReady", "notFound", "invoke"}}
            ends    == {e \in BagToSet(serverLog) :
                          e.id = id /\ e.ev \in {"notReady", "notFound", "return", "throw"}}
            answers == {m \in BagToSet(posted) : m.id = id}
        IN  /\ \A e \in starts : starts = {e} /\ CopiesIn(e, serverLog) = 1
            /\ ends # {}
               => \E m \in answers : answers = {m} /\ CopiesIn(m, posted) = 1

\* C14: when a request reaches the server while discovery is still polling
\* (bridge injected, not ready, a poll scheduled), the server posts an error
\* response carrying the request's id.
C14_SearchingAnswers ==
    [][\A m \in toServer :
          (m \notin toServer' /\ injected /\ ~sdkReady /\ pollTimer # {})
          => \E r \in BagToSet(posted') : r.id = m.id /\ r.error # NoText]_vars

C16_ReadyOnce ==
    /\ [](/\ BagCardinality(posted) <= 1
          /\ ~sdkReady => listeners = {}
          /\ sdkReady =>
                /\ vsdk
                /\ BagCardinality(posted) = 1
                /\ \A m \in BagToSet(posted) :
                      /\ m.type = "SDK_READY"
                      /\ m.hasMethods
                      /\ m.methods = VSDKKeys
                      /\ m.error = NoText
                /\ listeners = EventTargets
                /\ pollTimer = {})
    /\ [][/\ (checkAttempts' = checkAttempts + 1 /\ vsdk) => (~sdkReady /\ sdkReady')
          /\ (~sdkReady /\ sdkReady') => (checkAttempts' = checkAttempts + 1 /\ vsdk)
          /\ sdkReady => UNCHANGED <<sdkReady, checkAttempts, posted, listeners,
                                     pollTimer>>]_vars

\* The vendor service appeared after two unsuccessful polls: the third run
\* of checkSDK made the server ready and its announcement reached the client.
C16_Witness ==
    /\ sdkReady
    /\ checkAttempts = 3
    /\ listeners = EventTargets
    /\ BagIn(ReadyWire, received)
    /\ readyCalls = <<VSDKKeys>>

\* C17: calls in flight together have different ids and each its own table
\* entry; a call settled by a response was settled with the result the vendor
\* function returned for the request of that call's own id, name and
\* arguments; and a run of the client's handleMessage on a message changes no
\* call other than the one whose id the message carries.
C17_OwnResponseOnly ==
    /\ [](\A j, k \in Allocated :
            /\ (j # k) => calls[j].id # calls[k].id
            /\ calls[k].state = "pending" => MapGet(callbacks, calls[k].id) = {k}
            /\ calls[k].by = "response" =>
                  \E e \in BagToSet(serverLog) :
                      /\ e.ev = "return"
                      /\ e.id = calls[k].id
                      /\ e.functionName = calls[k].functionName
                      /\ e.args = calls[k].args
                      /\ calls[k].state = "resolved"
                      /\ calls[k].value = e.detail[1])
    /\ [][\A m \in BagToSet(toClient) :
            (received' = received (+) SetToBag({m}))
            => \A j \in CallIds :
                  calls'[j] # calls[j] => (calls[j].id # NoId /\ calls[j].id = m.id)]_vars

\* Two calls of the same function with different arguments were in flight
\* together; the response of the second arrived first and resolved it with its
\* own result while the first is still pending with its response on the way.
C17_Witness ==
    \E j, k \in Allocated :
        /\ calls[j].functionName = calls[k].functionName
        /\ calls[j].args # calls[k].args
        /\ calls[j].issuedAt <= calls[k].issuedAt /\ j < k
        /\ calls[k].state = "resolved" /\ calls[k].by = "response"
        /\ calls[j].state = "pending"
        /\ \E m \in BagToSet(toClient) :
              m.id = calls[j].id /\ m.data # JsonData(calls[k].value)

\* C19: the table's keys are exactly the ids of the calls that were sent and
\* are not yet settled, each key leading to its own call; it is empty once
\* every sent call has had its response received or its timer run. A key is
\* added only by the callFunction that allocates it, and removed only by a
\* run of handleMessage on a message carrying that id or by that call's timer.
C19_TableIsPending ==
    /\ [](/\ DOMAIN callbacks =
                {calls[k].id : k \in {j \in Allocated : calls[j].state = "pending"}}
          /\ \A id \in DOMAIN callbacks : calls[callbacks[id]].id = id
          /\ (\A k \in Allocated : TimerFired(k) \/ ResponseReceived(calls[k].id))
                => DOMAIN callbacks = {})
    /\ [][/\ \A id \in DOMAIN callbacks' \ DOMAIN callbacks :
                /\ Len(calls') = Len(calls) + 1
                /\ calls'[Len(calls')].id = id
                /\ messageId' = messageId + 1
          /\ \A id \in DOMAIN callbacks \ DOMAIN callbacks' :
                \/ \E t \in timers : t.id = id /\ t \notin timers'
                \/ \E m \in BagToSet(toClient) :
                      /\ m.id = id
                      /\ received' = received (+) SetToBag({m})]_vars

\* Two calls were sent; one was settled by its response, the other by its
\* timer, and the table is empty again.
C19_Witness ==
    /\ Cardinality(Allocated) = 2
    /\ \E j, k \in Allocated : calls[j].by = "response" /\ calls[k].by = "timeout"
    /\ \A k \in Allocated : TimerFired(k)
    /\ DOMAIN callbacks = {}

C18_EventuallySettled ==
    \A k \in 1..MaxCalls :
        (k \in Allocated) ~> (k \in CallIds /\ calls[k].state # "pending")

\* A call whose request the server never answered (dropped for want of a
\* listener) was settled by its timer, 30 s after it was issued.
C18_Witness ==
    \E k \in Allocated :
        /\ calls[k].by = "timeout"
        /\ calls[k].state = "rejected"
        /\ now - calls[k].issuedAt >= TIMEOUT_MS
        /\ ~\E e \in BagToSet(serverLog) : e.id = calls[k].id
        /\ ~\E m \in BagToSet(posted) : m.id = calls[k].id

====
